---------------------------- MODULE Spec2Model ----------------------------
(***************************************************************************)
(* State-machine model of the particle-explosions animation                *)
(* (src/script.js): the pre-generated value source (RNG), particles and    *)
(* their kinematics, particle groups, the burst pool, the renderer's       *)
(* queue and the animation tick.                                           *)
(*                                                                         *)
(* Numbers.  JavaScript numbers are modelled in fixed point: positions and *)
(* speeds are integers counting thousandths of a pixel (Scale), the values *)
(* of the value source are thousandths in 0..999, and lifetimes, timers    *)
(* and the elapsed-time scale of a tick are whole numbers.  The values     *)
(* NaN, +Infinity, -Infinity and undefined are kept apart from the finite  *)
(* numbers and follow the IEEE rules the code relies on (every comparison  *)
(* with NaN is false, undefined converts to NaN in arithmetic).            *)
(* window.devicePixelRatio is 1.                                           *)
(***************************************************************************)
EXTENDS Integers, Sequences, FiniteSets, TLC

VARIABLES
    queue,              \* rng.queue: the pre-generated values
    iterator,           \* rng.iterator
    particleGroups,     \* the pool: a sequence of groups
    renderQueue,        \* renderer.renderQueue: group ids (references)
    particlesPerBurst,
    newBurstTimer,
    persistStrokes,
    enableFloor,
    enableGlow,
    enableReflections,
    autoBursts,
    nextId,             \* identity of the next group object allocated
    canvas,             \* what the last operation did to the drawing surfaces
    last,               \* the last operation and what it did
    run,                \* the current run of consecutive particleBurst calls
    events,             \* number of inputs and ticks so far
    sinceBurst,         \* elapsed-time scales summed since the last pointer-down
                        \* burst (up to BurstDelay); -1 when there was none, or
                        \* the auto-bursts button was pressed since
    budget              \* number of inputs and ticks this run explores

vars == <<queue, iterator, particleGroups, renderQueue, particlesPerBurst,
          newBurstTimer, persistStrokes, enableFloor, enableGlow,
          enableReflections, autoBursts, nextId, canvas, last, run, events,
          sinceBurst, budget>>

---------------------------------------------------------------------------
(* Bounds of the model *)

\* length of the pre-generated sequence (65535 in the code)
RngLen == 10

\* the pool never grows beyond this many groups
MaxGroups == 5

\* number of inputs and ticks explored when every input may occur (Spec)
MaxEvents == 3

\* number of inputs and ticks explored when only the inputs that act on the
\* simulation occur (SimSpec)
MaxSimEvents == 4

\* number of inputs and ticks explored when only the inputs that bear on the
\* floor occur (FloorSpec)
MaxFloorEvents == 5

\* number of ticks explored from a particle drawn from ParticleInputs
\* (MoveSpec)
MaxMoveEvents == 2

\* inputs and ticks of one behaviour of LiveSpec: enough ticks of scale 8
\* for the longest lifetime (90) to run out and the group to retire
MaxLiveEvents == 15

\* a behaviour of LiveSpec takes its inputs among its first MaxLiveInputs
\* events; from then on it only ticks
MaxLiveInputs == 1

---------------------------------------------------------------------------
(* Program constants *)

Scale == 10^3

\* innerWidth and innerHeight, in pixels
InnerWidth == 800
InnerHeight == 600

_w == InnerWidth * Scale
_h == InnerHeight * Scale

\* gravity = 1.7, in thousandths
gravity == 1700

\* airResistance = 0.002, in thousandths
airResistance == 2

\* newBurstTimer is (re)set to this
BurstDelay == 60

\* elapsed-time scales (refreshThrottle) a tick may see
Deltas == {0, 1, 8, 45}

\* the elapsed-time scales of the ticks FloorSpec explores
FloorDeltas == {1, 8}

\* pointer positions (clientX, clientY), in pixels
ClickPoints == {<<400, 200>>, <<400, 590>>}

\* values Math.random() put in the queue, in thousandths
RVals == {0, 500, 999}

---------------------------------------------------------------------------
(* JavaScript numbers *)

NaN == 0 - (2 * 10^9)
Undefined == NaN - 1
PInf == 2 * 10^9
NInf == 0 - PInf + 1

IsNaN(a) == a = NaN \/ a = Undefined
IsInf(a) == a = PInf \/ a = NInf
IsFinite(a) == ~IsNaN(a) /\ ~IsInf(a)

Sgn(a) == IF a > 0 THEN 1 ELSE IF a < 0 THEN -1 ELSE 0

\* n / k rounded to the nearest integer (k > 0)
RoundDiv(n, k) == (2 * n + k) \div (2 * k)

\* smallest integer >= n / k (k > 0)
CeilDiv(n, k) == 0 - ((0 - n) \div k)

FNeg(a) ==
    IF IsNaN(a) THEN NaN
    ELSE IF a = PInf THEN NInf
    ELSE IF a = NInf THEN PInf
    ELSE 0 - a

FAbs(a) ==
    IF IsNaN(a) THEN NaN
    ELSE IF IsInf(a) THEN PInf
    ELSE IF a < 0 THEN 0 - a ELSE a

FAdd(a, b) ==
    IF IsNaN(a) \/ IsNaN(b) THEN NaN
    ELSE IF IsInf(a) /\ IsInf(b) THEN (IF a = b THEN a ELSE NaN)
    ELSE IF IsInf(a) THEN a
    ELSE IF IsInf(b) THEN b
    ELSE a + b

FSub(a, b) == FAdd(a, FNeg(b))

\* product of two numbers, no rescaling
FMul(a, b) ==
    IF IsNaN(a) \/ IsNaN(b) THEN NaN
    ELSE IF IsInf(a) \/ IsInf(b)
         THEN (IF Sgn(a) * Sgn(b) = 0 THEN NaN
               ELSE IF Sgn(a) * Sgn(b) > 0 THEN PInf ELSE NInf)
    ELSE a * b

\* a / k for a positive integer k
FShrink(a, k) == IF IsFinite(a) THEN RoundDiv(a, k) ELSE IF IsNaN(a) THEN NaN ELSE a

\* product of two fixed-point numbers
FMulS(a, b) == FShrink(FMul(a, b), Scale)

\* quotient a / b, where the result has the scale of a
FDivBy(a, b) ==
    IF IsNaN(a) \/ IsNaN(b) THEN NaN
    ELSE IF IsInf(a) /\ IsInf(b) THEN NaN
    ELSE IF IsInf(a) THEN (IF Sgn(a) * (IF b < 0 THEN -1 ELSE 1) > 0 THEN PInf ELSE NInf)
    ELSE IF IsInf(b) THEN 0
    ELSE IF b = 0 THEN (IF a = 0 THEN NaN ELSE IF a > 0 THEN PInf ELSE NInf)
    ELSE Sgn(a) * Sgn(b) * RoundDiv((IF a < 0 THEN 0 - a ELSE a), (IF b < 0 THEN 0 - b ELSE b))

\* quotient of two fixed-point numbers, in fixed point
FDivS(a, b) == FDivBy(FMul(a, Scale), b)

FLt(a, b) == ~IsNaN(a) /\ ~IsNaN(b) /\ a < b
FGt(a, b) == FLt(b, a)
FLe(a, b) == ~IsNaN(a) /\ ~IsNaN(b) /\ a <= b

\* Math.max
FMax(a, b) == IF IsNaN(a) \/ IsNaN(b) THEN NaN ELSE IF a >= b THEN a ELSE b

\* Math.round of a fixed-point number, as a whole number
FRound(a) == FShrink(a, Scale)

\* Math.ceil of a fixed-point number, as a whole number
FCeil(a) == IF IsFinite(a) THEN CeilDiv(a, Scale) ELSE IF IsNaN(a) THEN NaN ELSE a

---------------------------------------------------------------------------
(* RNG *)

\* the iterator after one more call of value()
RngAdvance(it) == IF it = RngLen THEN 0 ELSE it + 1

\* the iterator after k more calls of value(): RngAdvance applied k times,
\* which walks the cycle 0, 1, ..., RngLen, 0, ...
IterAfter(it, k) == IF k = 0 THEN it ELSE (RngAdvance(it) + (k - 1)) % (RngLen + 1)

\* this.queue[i]: undefined past the end of the array
QueueAt(q, i) == IF i \in DOMAIN q THEN q[i] ELSE Undefined

\* what the k-th call of value() from now returns (k >= 1)
RngValue(q, it, k) == QueueAt(q, IterAfter(it, k))

---------------------------------------------------------------------------
(* Particle *)

\* Particle.resetValues, the calls of value() being numbers 1..7 after `it`
ResetValues(p, q, it) ==
    LET lifetime == FAdd(60, FRound(FMul(RngValue(q, it, 1), 30)))
        z0 == FAdd((4 * _h) \div 5,
                   FMul(FShrink(FMul(RngValue(q, it, 4), _h), 12 * Scale * Scale), Scale))
        z == FMax(z0, p.y)
    IN  [p EXCEPT
            !.lifetime = lifetime,
            !.prevLifetime = lifetime,
            !.lightness = FRound(FAdd(60 * Scale, FMul(RngValue(q, it, 2), 40))),
            !.size = FCeil(FMul(RngValue(q, it, 3), 2)),
            !.z = z,
            !.xSpeed = FAdd(11 * Scale, FMul(RngValue(q, it, 5), -22)),
            !.ySpeed = FAdd(16 * Scale, FMul(RngValue(q, it, 6), -32)),
            !.zSpeed = FAdd(Scale \div 2, FMul(RngValue(q, it, 7), -1)),
            !.airborne = TRUE,
            !.prevX = p.x,
            !.prevY = p.y,
            !.prevZ = z]

\* number of value() calls one resetValues makes
DrawsPerParticle == 7

\* new Particle(x, y)
NewParticle(x, y, q, it) ==
    ResetValues([x |-> x, y |-> y, z |-> Undefined,
                 prevX |-> x, prevY |-> y, prevZ |-> Undefined,
                 xSpeed |-> Undefined, ySpeed |-> Undefined, zSpeed |-> Undefined,
                 airborne |-> Undefined, lifetime |-> Undefined,
                 prevLifetime |-> Undefined, lightness |-> Undefined,
                 size |-> Undefined], q, it)

\* an early return that tests the viewport only
CulledInView(p, lifetime) ==
    FLt(p.x, 0) \/ FGt(p.x, _w) \/ FGt(p.y, _h)

\* the early return of move: outside the viewport, or no lifetime left
Culled(p, lifetime) ==
    FLt(p.x, 0) \/ FGt(p.x, _w) \/ FGt(p.y, _h) \/ FLe(lifetime, 0)

\* this.v - (this.v * airResistance * refreshThrottle)
Decay(v, d) == FSub(v, FShrink(FMul(FMul(v, airResistance), d), Scale))

\* a flat application that also lets the air slow the particle
MoveFlatDecay(p, d) ==
    [p EXCEPT !.xSpeed = Decay(p.xSpeed, d),
              !.ySpeed = Decay(p.ySpeed, d),
              !.zSpeed = Decay(p.zSpeed, d),
              !.x = FAdd(p.x, FMul(p.xSpeed, d)),
              !.y = FAdd(p.y, FMul(p.ySpeed, d)),
              !.z = FAdd(p.z, FMul(p.zSpeed, d))]

\* a flat application of the speeds once per tick, whatever time elapsed
MoveFlatPerTick(p, d) ==
    [p EXCEPT !.x = FAdd(p.x, FMul(p.xSpeed, 1)),
              !.y = FAdd(p.y, FMul(p.ySpeed, 1)),
              !.z = FAdd(p.z, FMul(p.zSpeed, 1))]

\* a flat application that takes the particle off the ground
MoveFlatAirborne(p, d) ==
    [p EXCEPT !.x = FAdd(p.x, FMul(p.xSpeed, d)),
              !.y = FAdd(p.y, FMul(p.ySpeed, d)),
              !.z = FAdd(p.z, FMul(p.zSpeed, d)),
              !.airborne = TRUE]

\* the flat application of the speeds (floor disabled)
MoveFlat(p, d) ==
    [p EXCEPT !.x = FAdd(p.x, FMul(p.xSpeed, d)),
              !.y = FAdd(p.y, FMul(p.ySpeed, d)),
              !.z = FAdd(p.z, FMul(p.zSpeed, d))]

\* an "on the ground" branch without the kill above the floor area
MoveGroundedNoKill(p, d) ==
    LET xSpeed == Decay(p.xSpeed, d)
        zSpeed == Decay(p.zSpeed, d)
    IN  [p EXCEPT !.xSpeed = xSpeed,
                  !.zSpeed = zSpeed,
                  !.x = FAdd(p.x, FMul(xSpeed, d)),
                  !.y = FAdd(p.y, FMul(zSpeed, d)),
                  !.z = FAdd(p.z, FMul(zSpeed, d))]

\* the "on the ground" branch
MoveGrounded(p, d) ==
    LET xSpeed == Decay(p.xSpeed, d)
        zSpeed == Decay(p.zSpeed, d)
    IN  [p EXCEPT !.lifetime = IF FLt(p.y, (_h * 72) \div 100) THEN -1 ELSE @,
                  !.xSpeed = xSpeed,
                  !.zSpeed = zSpeed,
                  !.x = FAdd(p.x, FMul(xSpeed, d)),
                  !.y = FAdd(p.y, FMul(zSpeed, d)),
                  !.z = FAdd(p.z, FMul(zSpeed, d))]

\* the "free fall" branch
MoveFreeFall(p, d) ==
    LET xSpeed == Decay(p.xSpeed, d)
        ySpeed == FAdd(Decay(p.ySpeed, d), FMul(gravity, d))
        zSpeed == Decay(p.zSpeed, d)
    IN  [p EXCEPT !.xSpeed = xSpeed,
                  !.ySpeed = ySpeed,
                  !.zSpeed = zSpeed,
                  !.x = FAdd(p.x, FMul(xSpeed, d)),
                  !.y = FAdd(p.y, FAdd(FMul(ySpeed, d), FMul(zSpeed, d))),
                  !.z = FAdd(p.z, FMul(zSpeed, d))]

\* the "bounce" branch
MoveBounce(p, d) ==
    LET proposedYSpeed == FAdd(Decay(p.ySpeed, d), FMul(gravity, d))
        movementProportion == FDivBy(FAbs(FDivS(FSub(p.y, p.z), proposedYSpeed)), d)
        xSpeed == Decay(p.xSpeed, d)
        ySpeed == FShrink(FMul(-6, proposedYSpeed), 10)
        zSpeed == Decay(p.zSpeed, d)
        z == FAdd(p.z, FMul(zSpeed, d))
    IN  [p EXCEPT !.lifetime = IF FLt(p.y, (_h * 72) \div 100) THEN -1 ELSE @,
                  !.xSpeed = xSpeed,
                  !.ySpeed = ySpeed,
                  !.zSpeed = zSpeed,
                  !.x = FAdd(p.x, FMul(FMulS(xSpeed, movementProportion), d)),
                  !.z = z,
                  !.y = FAdd(z, FMul(zSpeed, d)),
                  !.airborne = IF FLt(FAbs(FSub(FAbs(ySpeed), FAbs(p.ySpeed))), gravity)
                               THEN FALSE ELSE @]

\* a move that stores the previous position before it tests for culling
MoveSnapFirst(p, d, floor) ==
    LET lifetime == FSub(p.lifetime, d)
        snap == [p EXCEPT !.lifetime = lifetime,
                          !.prevX = p.x, !.prevY = p.y, !.prevZ = p.z]
        proposedY == FAdd(p.y, FMul(p.ySpeed, d))
        proposedZ == FAdd(p.z, FMul(p.zSpeed, d))
    IN  IF Culled(p, lifetime) THEN [snap EXCEPT !.lifetime = -1]
        ELSE IF ~floor THEN MoveFlat(snap, d)
        ELSE IF ~p.airborne THEN MoveGrounded(snap, d)
        ELSE IF FLt(proposedY, proposedZ) THEN MoveFreeFall(snap, d)
        ELSE MoveBounce(snap, d)

\* a move that tests airborne before it tests the floor setting
MoveGroundedFirst(p, d, floor) ==
    LET lifetime == FSub(p.lifetime, d)
        snap == [p EXCEPT !.lifetime = lifetime,
                          !.prevX = p.x, !.prevY = p.y, !.prevZ = p.z]
        proposedY == FAdd(p.y, FMul(p.ySpeed, d))
        proposedZ == FAdd(p.z, FMul(p.zSpeed, d))
    IN  IF Culled(p, lifetime) THEN [p EXCEPT !.lifetime = -1]
        ELSE IF p.airborne = FALSE THEN MoveGrounded(snap, d)
        ELSE IF ~floor THEN MoveFlat(snap, d)
        ELSE IF FLt(proposedY, proposedZ) THEN MoveFreeFall(snap, d)
        ELSE MoveBounce(snap, d)

\* a move that leaves the lifetime as it was
MoveNoAging(p, d, floor) ==
    LET proposedY == FAdd(p.y, FMul(p.ySpeed, d))
        proposedZ == FAdd(p.z, FMul(p.zSpeed, d))
    IN  IF Culled(p, p.lifetime) THEN [p EXCEPT !.lifetime = -1]
        ELSE LET snap == [p EXCEPT !.prevX = p.x, !.prevY = p.y, !.prevZ = p.z]
             IN  IF ~floor THEN MoveFlat(snap, d)
                 ELSE IF ~p.airborne THEN MoveGrounded(snap, d)
                 ELSE IF FLt(proposedY, proposedZ) THEN MoveFreeFall(snap, d)
                 ELSE MoveBounce(snap, d)

\* Particle.move(refreshThrottle), with the floor setting read from the global
Move(p, d, floor) ==
    LET lifetime == FSub(p.lifetime, d)
        aged == [p EXCEPT !.lifetime = lifetime]
        proposedY == FAdd(p.y, FMul(p.ySpeed, d))
        proposedZ == FAdd(p.z, FMul(p.zSpeed, d))
    IN  IF Culled(p, lifetime) THEN [p EXCEPT !.lifetime = -1]
        ELSE LET snap == [aged EXCEPT !.prevX = p.x, !.prevY = p.y, !.prevZ = p.z]
             IN  IF ~floor THEN MoveFlat(snap, d)
                 ELSE IF ~p.airborne THEN MoveGrounded(snap, d)
                 ELSE IF FLt(proposedY, proposedZ) THEN MoveFreeFall(snap, d)
                 ELSE MoveBounce(snap, d)

---------------------------------------------------------------------------
(* ParticleGroup *)

\* how many particles of a group the model carries: one for every 50 of
\* particlesPerBurst (50, 100, 250, 1000 give 1, 2, 5, 20)
ParticleCount(ppb) == ppb \div 50

\* a constructor that stores its coordinates the wrong way round
NewGroupSwapped(id, x, y, hue, ppb, q, it) ==
    [id |-> id, x |-> y, y |-> x, hue |-> FRound(hue), rendering |-> TRUE,
     particles |-> [i \in 1..ParticleCount(ppb) |->
                       NewParticle(y, x, q, IterAfter(it, DrawsPerParticle * (i - 1)))]]

\* new ParticleGroup(x, y, hue): hue was computed by the caller; the
\* particles' calls of value() start after `it`
NewGroup(id, x, y, hue, ppb, q, it) ==
    [id |-> id, x |-> x, y |-> y, hue |-> FRound(hue), rendering |-> TRUE,
     particles |-> [i \in 1..ParticleCount(ppb) |->
                       NewParticle(x, y, q, IterAfter(it, DrawsPerParticle * (i - 1)))]]

\* recalculateHue: one call of value()
RecalculateHue(g, q, it) == [g EXCEPT !.hue = FRound(FMul(RngValue(q, it, 1), 360))]

\* repositionGroup(x, y)
RepositionGroup(g, x, y) ==
    [g EXCEPT !.x = x, !.y = y, !.rendering = TRUE,
              !.particles = [i \in DOMAIN g.particles |->
                                [g.particles[i] EXCEPT !.x = x, !.y = y]]]

\* a respawn that re-rolls the particles before it repositions them
RespawnResetFirst(g, x, y, q, it) ==
    LET hued == RecalculateHue(g, q, it)
        reset == [hued EXCEPT
                     !.particles = [i \in DOMAIN hued.particles |->
                         ResetValues(hued.particles[i], q,
                                     IterAfter(it, 1 + DrawsPerParticle * (i - 1)))]]
    IN  RepositionGroup(reset, x, y)

\* respawn(x, y), but for its enqueue: recalculateHue is call 1 of value(),
\* the particles' resetValues follow
Respawn(g, x, y, q, it) ==
    LET moved == RepositionGroup(RecalculateHue(g, q, it), x, y)
    IN  [moved EXCEPT !.rendering = TRUE,
                      !.particles = [i \in DOMAIN moved.particles |->
                          ResetValues(moved.particles[i], q,
                                      IterAfter(it, 1 + DrawsPerParticle * (i - 1)))]]

\* a loop that drops the particles it does not move
StepLoopDrop(g, d, floor) ==
    SelectSeq([i \in DOMAIN g.particles |->
                  IF FGt(g.particles[i].lifetime, 0) THEN Move(g.particles[i], d, floor)
                  ELSE g.particles[i]],
              LAMBDA p : FGt(p.lifetime, 0))

\* the loop of stepParticles: move every particle with lifetime > 0
StepLoop(g, d, floor) ==
    [i \in DOMAIN g.particles |->
        IF FGt(g.particles[i].lifetime, 0) THEN Move(g.particles[i], d, floor)
        ELSE g.particles[i]]

\* a stepParticles that retires the group as soon as its pass leaves no
\* particle alive
StepParticlesEager(g, d, floor) ==
    LET stepped == StepLoop(g, d, floor)
        continueRendering == \E i \in DOMAIN stepped : FGt(stepped[i].lifetime, 0)
    IN  [g EXCEPT !.particles = stepped,
                  !.rendering = IF ~continueRendering THEN FALSE ELSE @]

\* stepParticles(refreshThrottle)
StepParticles(g, d, floor) ==
    LET continueRendering == \E i \in DOMAIN g.particles : FGt(g.particles[i].lifetime, 0)
    IN  [g EXCEPT !.particles = StepLoop(g, d, floor),
                  !.rendering = IF ~continueRendering THEN FALSE ELSE @]

---------------------------------------------------------------------------
(* Renderer *)

\* enqueue(groupToRender)
Enqueue(rq, id) == Append(rq, id)

\* a renderHidden that reads the queue without popping it
RenderHiddenKeep(rq, drawn) == [renderQueue |-> rq, drawn |-> rq]

\* renderHidden: pop groups off the queue until it is empty; `drawn` lists
\* them in the order they were drawn
RECURSIVE RenderHidden(_, _)
RenderHidden(rq, drawn) ==
    IF Len(rq) > 0
    THEN RenderHidden(SubSeq(rq, 1, Len(rq) - 1), Append(drawn, rq[Len(rq)]))
    ELSE [renderQueue |-> rq, drawn |-> drawn]

\* a render that clears whatever persistStrokes is
RenderAlwaysClear(rq, persist, glow) ==
    LET hidden == RenderHidden(rq, <<>>)
    IN  [renderQueue |-> hidden.renderQueue,
         canvas |-> [cleared |-> TRUE, queued |-> rq,
                     drawn |-> hidden.drawn, glow |-> glow]]

\* the particles of a group renderHidden draws a stroke for: it skips those
\* with lifetime <= 0
DrawnParticles(g) == {i \in DOMAIN g.particles : ~FLe(g.particles[i].lifetime, 0)}

\* render(): clear unless strokes persist, then draw the queue
Render(rq, persist, glow) ==
    LET hidden == RenderHidden(rq, <<>>)
    IN  [renderQueue |-> hidden.renderQueue,
         canvas |-> [cleared |-> ~persist, queued |-> rq,
                     drawn |-> hidden.drawn, glow |-> glow]]

---------------------------------------------------------------------------
(* Burst pool *)

\* a scan from the end of the pool: the last group that is not rendering,
\* or the last group
ScanBackwards(groups, i) ==
    IF Len(groups) = 0 THEN 0
    ELSE IF \E k \in DOMAIN groups : ~groups[k].rendering
    THEN CHOOSE k \in DOMAIN groups :
            /\ ~groups[k].rendering
            /\ \A j \in DOMAIN groups : ~groups[j].rendering => j <= k
    ELSE Len(groups)

\* a scan that looks at the last group only
ScanLastOnly(groups, i) == Len(groups)

\* a scan that runs off the end of an all-rendering pool (i+1 > length)
RECURSIVE ScanPastEnd(_, _)
ScanPastEnd(groups, i) ==
    IF i > Len(groups) THEN 0
    ELSE IF ~groups[i].rendering THEN i
    ELSE ScanPastEnd(groups, i + 1)

\* the index particleBurst's scan stops at, starting at i: the first group
\* that is not rendering, or the last group; 0 for an empty pool
RECURSIVE ScanFrom(_, _)
ScanFrom(groups, i) ==
    IF i > Len(groups) THEN 0
    ELSE IF ~groups[i].rendering THEN i
    ELSE IF i + 1 > Len(groups) THEN i
    ELSE ScanFrom(groups, i + 1)

\* particleBurst(x, y): the state it reads and writes is passed in a record
\* st (see Program); st.burst and st.target report what it did
ParticleBurst(st, x, y, ppb, q) ==
    LET i == ScanFrom(st.groups, 1)
    IN  IF i = 0 THEN st
        ELSE IF ~st.groups[i].rendering
        THEN [st EXCEPT
                !.groups = [st.groups EXCEPT ![i] = Respawn(@, x, y, q, st.it)],
                !.rq = Enqueue(st.rq, st.groups[i].id),
                !.it = IterAfter(st.it, 1 + DrawsPerParticle * Len(st.groups[i].particles)),
                !.burst = "respawn", !.target = i]
        ELSE [st EXCEPT
                !.groups = Append(st.groups,
                              NewGroup(st.nextId, x, y, FMul(RngValue(q, st.it, 1), 360),
                                       ppb, q, IterAfter(st.it, 1))),
                !.it = IterAfter(st.it, 1 + DrawsPerParticle * ParticleCount(ppb)),
                !.nextId = st.nextId + 1,
                !.burst = "append", !.target = Len(st.groups) + 1]

\* the coordinates autoPopulate passes to particleBurst: calls 1 and 2 of
\* value()
AutoX(q, it) ==
    FAdd(FAdd(100 * Scale, FShrink(FMul(RngValue(q, it, 1), _w \div 2), Scale)),
         _w \div 4)

AutoY(q, it) ==
    FAdd(100 * Scale, FShrink(FMul(RngValue(q, it, 2), (2 * _h) \div 3), Scale))

\* an autoPopulate that requests its burst twice
AutoPopulateTwice(st, ppb, q) ==
    LET once == ParticleBurst([st EXCEPT !.it = IterAfter(st.it, 3)],
                              AutoX(q, st.it), AutoY(q, st.it), ppb, q)
    IN  ParticleBurst(once, AutoX(q, st.it), AutoY(q, st.it), ppb, q)

\* autoPopulate(): three calls of value() for the arguments, then particleBurst
AutoPopulate(st, ppb, q) ==
    ParticleBurst([st EXCEPT !.it = IterAfter(st.it, 3)],
                  AutoX(q, st.it), AutoY(q, st.it), ppb, q)

---------------------------------------------------------------------------
(* The program *)

\* the state particleBurst and autoPopulate work on
Program ==
    [groups |-> particleGroups, rq |-> renderQueue, it |-> iterator,
     nextId |-> nextId, burst |-> "none", target |-> 0]

Idle(groups) == {i \in DOMAIN groups : ~groups[i].rendering}

\* the pool may take one more burst within the model's bound
CanBurst == Len(particleGroups) < MaxGroups \/ Idle(particleGroups) # {}

\* a sequence of unequal values, repeated along the queue
Pattern == <<500, 0, 999, 0, 500, 999, 999>>

\* the sequences Math.random() may have filled the queue with: one value
\* throughout, or the pattern
Queues ==
    {[i \in 0..(RngLen - 1) |-> v] : v \in RVals}
       \cup {[i \in 0..(RngLen - 1) |-> Pattern[(i % Len(Pattern)) + 1]]}

\* load: the globals, and the first group pushed onto the pool
Load ==
    /\ queue \in Queues
    /\ particlesPerBurst = 50
    /\ particleGroups =
          <<NewGroup(1, _w \div 2, _h \div 3, FMul(RngValue(queue, 0, 1), 360),
                     50, queue, 1)>>
    /\ iterator = IterAfter(0, 1 + DrawsPerParticle * ParticleCount(50))
    /\ renderQueue = <<>>
    /\ newBurstTimer = BurstDelay
    /\ persistStrokes = FALSE
    /\ enableFloor = TRUE
    /\ enableGlow = TRUE
    /\ enableReflections = TRUE
    /\ autoBursts = TRUE
    /\ nextId = 2
    /\ canvas = [cleared |-> FALSE, queued |-> <<>>, drawn |-> <<>>, glow |-> FALSE]
    /\ last = [op |-> "load", d |-> 0, burst |-> "none", target |-> 0, x |-> 0, y |-> 0]
    /\ run = <<>>
    /\ events = 0
    /\ sinceBurst = -1

\* a loop that stops after the first group of the pool
RenderingFirstOnly(groups, i) ==
    IF Len(groups) >= 1 /\ groups[1].rendering THEN <<groups[1].id>> ELSE <<>>

\* the ids of the groups the loop of animate enqueues, in order
RECURSIVE Rendering(_, _)
Rendering(groups, i) ==
    IF i > Len(groups) THEN <<>>
    ELSE (IF groups[i].rendering THEN <<groups[i].id>> ELSE <<>>)
         \o Rendering(groups, i + 1)

\* animate(callbackTime), d being the refreshThrottle it computes
Tick(d) ==
    /\ events < budget
    /\ LET auto == autoBursts /\ ~(newBurstTimer > 0)
           st == IF auto THEN AutoPopulate(Program, particlesPerBurst, queue) ELSE Program
           stepped == [i \in DOMAIN st.groups |->
                          IF st.groups[i].rendering
                          THEN StepParticles(st.groups[i], d, enableFloor)
                          ELSE st.groups[i]]
           rendered == Render(st.rq \o Rendering(st.groups, 1), persistStrokes, enableGlow)
       IN  /\ auto => CanBurst
           /\ newBurstTimer' = IF ~autoBursts THEN newBurstTimer
                               ELSE IF newBurstTimer > 0 THEN newBurstTimer - d
                               ELSE BurstDelay
           /\ particleGroups' = stepped
           /\ iterator' = st.it
           /\ nextId' = st.nextId
           /\ renderQueue' = rendered.renderQueue
           /\ canvas' = rendered.canvas
           /\ last' = [op |-> "tick", d |-> d, burst |-> st.burst,
                       target |-> st.target,
                       x |-> IF auto THEN AutoX(queue, iterator) ELSE 0,
                       y |-> IF auto THEN AutoY(queue, iterator) ELSE 0]
    /\ run' = <<>>
    /\ events' = events + 1
    /\ sinceBurst' = IF sinceBurst < 0 THEN sinceBurst
                     ELSE IF sinceBurst + d > BurstDelay THEN BurstDelay
                     ELSE sinceBurst + d
    /\ UNCHANGED <<queue, particlesPerBurst, persistStrokes, enableFloor,
                   enableGlow, enableReflections, autoBursts, budget>>

\* a handler that bursts and leaves newBurstTimer alone
UserBurstKeepsTimer(pt) ==
    /\ events < budget
    /\ CanBurst
    /\ LET st == ParticleBurst(Program, pt[1] * Scale, pt[2] * Scale,
                               particlesPerBurst, queue)
       IN  /\ particleGroups' = st.groups
           /\ iterator' = st.it
           /\ nextId' = st.nextId
           /\ renderQueue' = st.rq
           /\ last' = [op |-> "burst", d |-> 0, burst |-> st.burst,
                       target |-> st.target, x |-> pt[1] * Scale, y |-> pt[2] * Scale]
    /\ run' = Append(run, [len |-> Len(particleGroups),
                           active |-> Idle(particleGroups) = {}])
    /\ events' = events + 1
    /\ sinceBurst' = 0
    /\ UNCHANGED <<queue, particlesPerBurst, newBurstTimer, persistStrokes,
                   enableFloor, enableGlow, enableReflections, autoBursts, canvas,
                   budget>>

\* createParticleBurst(e) for a mousedown or touchstart outside the buttons
UserBurst(pt) ==
    /\ events < budget
    /\ CanBurst
    /\ LET st == ParticleBurst(Program, pt[1] * Scale, pt[2] * Scale,
                               particlesPerBurst, queue)
       IN  /\ particleGroups' = st.groups
           /\ iterator' = st.it
           /\ nextId' = st.nextId
           /\ renderQueue' = st.rq
           /\ last' = [op |-> "burst", d |-> 0, burst |-> st.burst,
                       target |-> st.target, x |-> pt[1] * Scale, y |-> pt[2] * Scale]
    /\ newBurstTimer' = BurstDelay
    /\ run' = Append(run, [len |-> Len(particleGroups),
                           active |-> Idle(particleGroups) = {}])
    /\ events' = events + 1
    /\ sinceBurst' = 0
    /\ UNCHANGED <<queue, particlesPerBurst, persistStrokes, enableFloor,
                   enableGlow, enableReflections, autoBursts, canvas, budget>>

\* what every other input does to the bookkeeping
Input(op) ==
    /\ events < budget
    /\ events' = events + 1
    /\ last' = [op |-> op, d |-> 0, burst |-> "none", target |-> 0, x |-> 0, y |-> 0]
    /\ run' = <<>>
    /\ sinceBurst' = IF op = "autoBurst" THEN -1 ELSE sinceBurst
    /\ UNCHANGED <<queue, budget>>

\* a handler that does not test the target: the button's pointer-down bursts
ButtonPointerDownBursts ==
    /\ events < budget
    /\ CanBurst
    /\ LET st == ParticleBurst(Program, 400 * Scale, 200 * Scale,
                               particlesPerBurst, queue)
       IN  /\ particleGroups' = st.groups
           /\ iterator' = st.it
           /\ nextId' = st.nextId
           /\ renderQueue' = st.rq
    /\ newBurstTimer' = BurstDelay
    /\ last' = [op |-> "buttondown", d |-> 0, burst |-> "none", target |-> 0,
                x |-> 0, y |-> 0]
    /\ run' = <<>>
    /\ events' = events + 1
    /\ UNCHANGED <<queue, particlesPerBurst, persistStrokes, enableFloor,
                   enableGlow, enableReflections, autoBursts, canvas, sinceBurst,
                   budget>>

\* createParticleBurst(e) for a mousedown or touchstart on a button
ButtonPointerDown ==
    /\ Input("buttondown")
    /\ UNCHANGED <<iterator, particleGroups, renderQueue, particlesPerBurst,
                   newBurstTimer, persistStrokes, enableFloor, enableGlow,
                   enableReflections, autoBursts, nextId, canvas>>

\* a cycle without its last branch: the highest tier stays
NextCountNoWrap(ppb) ==
    IF ppb = 50 THEN 100
    ELSE IF ppb = 100 THEN 250
    ELSE IF ppb = 250 THEN 1000
    ELSE ppb

\* the next tier of the particle count
NextCount(ppb) ==
    IF ppb = 50 THEN 100
    ELSE IF ppb = 100 THEN 250
    ELSE IF ppb = 250 THEN 1000
    ELSE IF ppb = 1000 THEN 50
    ELSE ppb

\* a click that empties the pool and pushes no group
ParticleCountClickEmpties ==
    /\ Input("particleCount")
    /\ particlesPerBurst' = NextCount(particlesPerBurst)
    /\ newBurstTimer' = BurstDelay
    /\ particleGroups' = <<>>
    /\ UNCHANGED <<iterator, nextId, renderQueue, persistStrokes, enableFloor,
                   enableGlow, enableReflections, autoBursts, canvas>>

\* click on particleCountButton
ParticleCountClick ==
    /\ Input("particleCount")
    /\ particlesPerBurst' = NextCount(particlesPerBurst)
    /\ newBurstTimer' = BurstDelay
    /\ particleGroups' =
          <<NewGroup(nextId, _w \div 2, _h \div 3, FMul(RngValue(queue, iterator, 1), 360),
                     particlesPerBurst', queue, IterAfter(iterator, 1))>>
    /\ iterator' = IterAfter(iterator, 1 + DrawsPerParticle * ParticleCount(particlesPerBurst'))
    /\ nextId' = nextId + 1
    /\ UNCHANGED <<renderQueue, persistStrokes, enableFloor, enableGlow,
                   enableReflections, autoBursts, canvas>>

\* a click that toggles the reflections whatever the floor setting
ReflectionsClickAlways ==
    /\ Input("reflections")
    /\ enableReflections' = ~enableReflections
    /\ UNCHANGED <<iterator, particleGroups, renderQueue, particlesPerBurst,
                   newBurstTimer, persistStrokes, enableFloor, enableGlow,
                   autoBursts, nextId, canvas>>

\* click on enableReflectionsButton
ReflectionsClick ==
    /\ Input("reflections")
    /\ enableReflections' = IF ~enableFloor THEN enableReflections ELSE ~enableReflections
    /\ UNCHANGED <<iterator, particleGroups, renderQueue, particlesPerBurst,
                   newBurstTimer, persistStrokes, enableFloor, enableGlow,
                   autoBursts, nextId, canvas>>

\* click on enableFloorButton
FloorClick ==
    /\ Input("floor")
    /\ enableFloor' = ~enableFloor
    /\ enableReflections' = enableFloor'
    /\ UNCHANGED <<iterator, particleGroups, renderQueue, particlesPerBurst,
                   newBurstTimer, persistStrokes, enableGlow, autoBursts, nextId,
                   canvas>>

\* click on enableGlowButton
GlowClick ==
    /\ Input("glow")
    /\ enableGlow' = ~enableGlow
    /\ UNCHANGED <<iterator, particleGroups, renderQueue, particlesPerBurst,
                   newBurstTimer, persistStrokes, enableFloor, enableReflections,
                   autoBursts, nextId, canvas>>

\* click on persistStrokesButton
PersistClick ==
    /\ Input("persist")
    /\ persistStrokes' = ~persistStrokes
    /\ UNCHANGED <<iterator, particleGroups, renderQueue, particlesPerBurst,
                   newBurstTimer, enableFloor, enableGlow, enableReflections,
                   autoBursts, nextId, canvas>>

\* a click that flips the flag and leaves the timer alone
AutoBurstClickKeepsTimer ==
    /\ Input("autoBurst")
    /\ autoBursts' = ~autoBursts
    /\ UNCHANGED <<iterator, particleGroups, renderQueue, particlesPerBurst,
                   newBurstTimer, persistStrokes, enableFloor, enableGlow,
                   enableReflections, nextId, canvas>>

\* click on autoBurstButton
AutoBurstClick ==
    /\ Input("autoBurst")
    /\ autoBursts' = ~autoBursts
    /\ newBurstTimer' = 0
    /\ UNCHANGED <<iterator, particleGroups, renderQueue, particlesPerBurst,
                   persistStrokes, enableFloor, enableGlow, enableReflections,
                   nextId, canvas>>

\* click on clearCanvasButton: renderer.clear()
ClearClick ==
    /\ Input("clear")
    /\ canvas' = [cleared |-> TRUE, queued |-> <<>>, drawn |-> <<>>, glow |-> FALSE]
    /\ UNCHANGED <<iterator, particleGroups, renderQueue, particlesPerBurst,
                   newBurstTimer, persistStrokes, enableFloor, enableGlow,
                   enableReflections, autoBursts, nextId>>

Init == Load /\ budget = MaxEvents

\* every input, and the tick
Next ==
    \/ \E d \in Deltas : Tick(d)
    \/ \E pt \in ClickPoints : UserBurst(pt)
    \/ ButtonPointerDown
    \/ ParticleCountClick
    \/ ReflectionsClick
    \/ FloorClick
    \/ GlowClick
    \/ PersistClick
    \/ AutoBurstClick
    \/ ClearClick

\* the whole program, up to MaxEvents inputs and ticks
Spec == Init /\ [][Next]_vars

SimInit == Load /\ budget = MaxSimEvents

\* the inputs that act on the simulation, and the tick
SimNext ==
    \/ \E d \in Deltas : Tick(d)
    \/ \E pt \in ClickPoints : UserBurst(pt)
    \/ ParticleCountClick
    \/ FloorClick
    \/ AutoBurstClick

\* the simulation, up to MaxSimEvents inputs and ticks
SimSpec == SimInit /\ [][SimNext]_vars

FloorInit == Load /\ budget = MaxFloorEvents

\* the floor switch, the inputs that put particles on the floor, and the tick
FloorNext ==
    \/ \E d \in FloorDeltas : Tick(d)
    \/ UserBurst(<<400, 590>>)
    \/ ParticleCountClick
    \/ FloorClick

\* the simulation around the floor, up to MaxFloorEvents inputs and ticks
FloorSpec == FloorInit /\ [][FloorNext]_vars

\* particles move may be called on: at rest on the floor or in the air,
\* around the upper edge of the floor area (72% of the height is 432)
ParticleInputs ==
    {[x |-> 400 * Scale, y |-> py * Scale, z |-> py * Scale,
      prevX |-> 400 * Scale, prevY |-> py * Scale, prevZ |-> py * Scale,
      xSpeed |-> xs, ySpeed |-> 0, zSpeed |-> zs,
      airborne |-> a, lifetime |-> l, prevLifetime |-> l,
      lightness |-> 60, size |-> 1] :
        py \in {300, 431, 432, 500}, xs \in {0, 3000}, zs \in {-400, 300},
        a \in BOOLEAN, l \in {1, 50}}

\* one rendering group holding one of those particles, under either floor
\* setting
MoveInit ==
    /\ queue = [i \in 0..(RngLen - 1) |-> 500]
    /\ iterator = IterAfter(0, 1 + DrawsPerParticle * ParticleCount(50))
    /\ particlesPerBurst = 50
    /\ \E p \in ParticleInputs :
          particleGroups = <<[id |-> 1, x |-> p.x, y |-> p.y, hue |-> 180,
                              rendering |-> TRUE, particles |-> <<p>>]>>
    /\ renderQueue = <<>>
    /\ newBurstTimer = BurstDelay
    /\ persistStrokes = FALSE
    /\ enableFloor \in BOOLEAN
    /\ enableGlow = TRUE
    /\ enableReflections = enableFloor
    /\ autoBursts = TRUE
    /\ nextId = 2
    /\ canvas = [cleared |-> FALSE, queued |-> <<>>, drawn |-> <<>>, glow |-> FALSE]
    /\ last = [op |-> "load", d |-> 0, burst |-> "none", target |-> 0, x |-> 0, y |-> 0]
    /\ run = <<>>
    /\ events = 0
    /\ sinceBurst = -1
    /\ budget = MaxMoveEvents

MoveNext == \E d \in Deltas : Tick(d)

\* move applied, by the tick, to the particles of ParticleInputs
MoveSpec == MoveInit /\ [][MoveNext]_vars

\* elapsed-time scales bounded below by a positive value
LiveDeltas == {8, 45}

\* the program after load and a click that switched the auto-bursts off,
\* under either floor setting
LiveInit ==
    /\ queue \in Queues
    /\ particlesPerBurst = 50
    /\ particleGroups =
          <<NewGroup(1, _w \div 2, _h \div 3, FMul(RngValue(queue, 0, 1), 360),
                     50, queue, 1)>>
    /\ iterator = IterAfter(0, 1 + DrawsPerParticle * ParticleCount(50))
    /\ renderQueue = <<>>
    /\ newBurstTimer = 0
    /\ persistStrokes = FALSE
    /\ enableFloor \in BOOLEAN
    /\ enableGlow = TRUE
    /\ enableReflections = enableFloor
    /\ autoBursts = FALSE
    /\ nextId = 2
    /\ canvas = [cleared |-> FALSE, queued |-> <<>>, drawn |-> <<>>, glow |-> FALSE]
    /\ last = [op |-> "autoBurst", d |-> 0, burst |-> "none", target |-> 0,
               x |-> 0, y |-> 0]
    /\ run = <<>>
    /\ events = 0
    /\ sinceBurst = -1
    /\ budget = MaxLiveEvents

\* the tick at a positive scale; early on, the inputs that make or discard
\* groups and the floor switch
LiveNext ==
    \/ \E d \in LiveDeltas : Tick(d)
    \/ events < MaxLiveInputs /\ \E pt \in ClickPoints : UserBurst(pt)
    \/ events < MaxLiveInputs /\ ParticleCountClick
    \/ events < MaxLiveInputs /\ FloorClick

\* a tick as the bookkeeping records it: with the auto-bursts off, a step of
\* LiveNext is a tick exactly when it is a Frame step
Frame ==
    /\ events < budget
    /\ events' = events + 1
    /\ \E d \in LiveDeltas :
          last' = [op |-> "tick", d |-> d, burst |-> "none", target |-> 0,
                   x |-> 0, y |-> 0]

\* requestAnimationFrame(animate) at the end of animate: the tick keeps
\* being scheduled
LiveSpec == LiveInit /\ [][LiveNext]_vars /\ WF_<<events, last>>(Frame)

\* the steps of LiveSpec that are Frame steps are its ticks
FrameIsTick == [][Frame <=> \E d \in LiveDeltas : Tick(d)]_vars

---------------------------------------------------------------------------
(* Properties: the burst pool *)

\* this step called particleBurst: a pointer-down outside the buttons, or a
\* tick whose auto-burst timer had run out
BurstCalled ==
    \/ last'.op = "burst"
    \/ last'.op = "tick" /\ autoBursts /\ ~(newBurstTimer > 0)

\* C1: if at least one group has rendering = false when particleBurst is
\* called, the call does not change the length of particleGroups
C1_IdleReuse ==
    [][(BurstCalled /\ Idle(particleGroups) # {})
          => Len(particleGroups') = Len(particleGroups)]_vars

\* a pointer-down has just respawned an idle group of a pool of several
C1_Reused ==
    /\ last.op = "burst"
    /\ last.burst = "respawn"
    /\ Len(particleGroups) >= 2

\* C2: if every group has rendering = true when particleBurst(x, y) is
\* called, the length grows by exactly 1 and the appended group is at (x, y)
\* with rendering = true.  The flag is read where the call has just
\* returned, after a pointer-down; a tick steps the appended group before
\* the next state, so after an auto-burst only length and position are read
C2_Growth ==
    [][(BurstCalled /\ Idle(particleGroups) = {})
          => /\ Len(particleGroups') = Len(particleGroups) + 1
             /\ LET g == particleGroups'[Len(particleGroups')]
                IN  /\ g.x = last'.x
                    /\ g.y = last'.y
                    /\ last'.op = "burst" => g.rendering]_vars

\* a pointer-down has just appended a group to an all-rendering pool
C2_Appended ==
    /\ last.op = "burst"
    /\ last.burst = "append"
    /\ Len(particleGroups) >= 2
    /\ particleGroups[Len(particleGroups)].rendering

\* `run` ends with three consecutive pointer-down bursts that started from
\* a pool of two groups, both rendering
TwoActiveThreeBursts ==
    /\ Len(run) >= 3
    /\ run[Len(run) - 2].len = 2
    /\ run[Len(run) - 2].active

\* C3 as the specification states it: three particleBurst calls on a pool
\* of two rendering groups, nothing retiring in between, leave 3 groups
C3_ThreeGroups == TwoActiveThreeBursts => Len(particleGroups) = 3

\* C3, as the code behaves: every one of consecutive particleBurst calls
\* that starts from an all-rendering pool appends one group, so three calls
\* on a pool of two rendering groups leave 5 groups
C3_FiveGroups ==
    /\ TwoActiveThreeBursts => Len(particleGroups) = 5
    /\ \A j \in DOMAIN run :
          run[j].active => Len(particleGroups) = run[j].len + (Len(run) - j + 1)

\* the three bursts of the scenario have been made
C3_Scenario == TwoActiveThreeBursts /\ Len(particleGroups) = 5

---------------------------------------------------------------------------
(* Properties: respawn and resetValues *)

\* C4: after ParticleGroup.respawn(x, y) returns, rendering is true and
\* every particle of the group has lifetime > 0
C4_RespawnAlive ==
    (last.op = "burst" /\ last.burst = "respawn")
       => LET g == particleGroups[last.target]
          IN  /\ g.rendering
              /\ \A i \in DOMAIN g.particles : FGt(g.particles[i].lifetime, 0)

\* the group whose particles the last operation ran resetValues on
ResetGroup == IF last.op = "burst" THEN last.target ELSE 1

\* C5: after Particle.resetValues() returns, lifetime > 0, airborne is true
\* and (prevX, prevY, prevZ) = (x, y, z)
C5_ResetValues ==
    last.op \in {"load", "burst", "particleCount"}
       => \A i \in DOMAIN particleGroups[ResetGroup].particles :
             LET p == particleGroups[ResetGroup].particles[i]
             IN  /\ FGt(p.lifetime, 0)
                 /\ p.airborne = TRUE
                 /\ p.prevX = p.x /\ p.prevY = p.y /\ p.prevZ = p.z

---------------------------------------------------------------------------
(* Properties: move *)

\* the particles of the pool, as <<group index, particle index>>
Particles ==
    {gp \in (DOMAIN particleGroups) \X (1..ParticleCount(1000)) :
        gp[2] \in DOMAIN particleGroups[gp[1]].particles}

ParticleAt(groups, gp) == groups[gp[1]].particles[gp[2]]

SamePosition(a, b) == a.x = b.x /\ a.y = b.y /\ a.z = b.z

\* C6: once a particle's lifetime is <= 0, move() does not change its x, y
\* or z, and no step changes them but a respawn of its group
C6_DeadStay ==
    /\ [](\A gp \in Particles :
             LET p == ParticleAt(particleGroups, gp)
             IN  FLe(p.lifetime, 0)
                    => \A d \in Deltas : \A floor \in BOOLEAN :
                          SamePosition(Move(p, d, floor), p))
    /\ [][\A gp \in Particles :
             LET p == ParticleAt(particleGroups, gp)
             IN  (/\ FLe(p.lifetime, 0)
                  /\ gp[1] \in DOMAIN particleGroups'
                  /\ particleGroups'[gp[1]].id = particleGroups[gp[1]].id
                  /\ ~SamePosition(ParticleAt(particleGroups', gp), p))
                    => last'.burst = "respawn" /\ last'.target = gp[1]]_vars

\* a tick has just retired a group that holds a particle with lifetime <= 0
C6_DeadParticle ==
    /\ last.op = "tick"
    /\ \E gp \in Particles :
          /\ ~particleGroups[gp[1]].rendering
          /\ FLe(ParticleAt(particleGroups, gp).lifetime, 0)

\* C7: with the floor enabled, a particle with airborne = false and
\* lifetime > 0 never has y - z greater than gravity
C7_FloorContainment ==
    enableFloor
       => \A gp \in Particles :
             LET p == ParticleAt(particleGroups, gp)
             IN  (p.airborne = FALSE /\ FGt(p.lifetime, 0))
                    => ~FGt(FSub(p.y, p.z), gravity)

---------------------------------------------------------------------------
(* Properties: the render queue and the RNG *)

\* C8: at the end of every tick renderQueue is empty, whatever the tick or
\* a respawn before it enqueued
C8_QueueDrained == last.op = "tick" => renderQueue = <<>>

\* a tick has just rendered a queue that held a respawn's entry besides
\* its own
C8_Drained ==
    /\ last.op = "tick"
    /\ Len(canvas.queued) > Len(particleGroups)
    /\ renderQueue = <<>>

\* C9: no group is in renderQueue more than once when render() runs
C9_NoDuplicates ==
    last.op = "tick"
       => \A i, j \in DOMAIN canvas.queued :
             canvas.queued[i] = canvas.queued[j] => i = j

\* C10: value() returns one of the pre-generated numbers in [0, 1), never
\* undefined; queue[iterator] is what the latest call returned
C10_ValueDefined == QueueAt(queue, iterator) \in 0..(Scale - 1)

\* C11: in every state rng.iterator is in [0, length), length being the
\* fixed length of the pre-generated sequence
C11_CursorInRange ==
    /\ DOMAIN queue = 0..(RngLen - 1)
    /\ iterator \in 0..(RngLen - 1)

---------------------------------------------------------------------------
(* Properties: degenerate steps *)

\* every number of the particle is finite
FiniteParticle(p) ==
    /\ IsFinite(p.x) /\ IsFinite(p.y) /\ IsFinite(p.z)
    /\ IsFinite(p.xSpeed) /\ IsFinite(p.ySpeed) /\ IsFinite(p.zSpeed)
    /\ IsFinite(p.lifetime)

\* this tick did not respawn the group at index gi
NotRespawned(gi) == ~(last'.burst = "respawn" /\ last'.target = gi)

\* C12: a tick never turns the x, y or z of a particle into NaN or an
\* infinity, whatever its elapsed-time scale (a degenerate bounce division
\* gives zero displacement): a particle whose numbers were finite before the
\* tick, in a group the tick did not respawn, has finite x, y and z after it
C12_NoNaN ==
    [][last'.op = "tick"
          => \A gp \in Particles :
                (FiniteParticle(ParticleAt(particleGroups, gp)) /\ NotRespawned(gp[1]))
                   => LET m == ParticleAt(particleGroups', gp)
                      IN  IsFinite(m.x) /\ IsFinite(m.y) /\ IsFinite(m.z)]_vars

---------------------------------------------------------------------------
(* Properties: groups *)

\* a group that owns a particle with lifetime > 0 is rendering
LiveIsRendering ==
    \A gp \in Particles :
       FGt(ParticleAt(particleGroups, gp).lifetime, 0) => particleGroups[gp[1]].rendering

\* C13: between operations a group that owns a particle with lifetime > 0
\* has rendering = true, and every group with rendering = false has only
\* particles with lifetime <= 0
C13_RenderingFlag ==
    /\ LiveIsRendering
    /\ \A gp \in Particles :
          ~particleGroups[gp[1]].rendering
             => FLe(ParticleAt(particleGroups, gp).lifetime, 0)

\* the group as its constructor leaves it under a particlesPerBurst of ppb:
\* every particle the count calls for (ParticleCount), all at the group's
\* origin, and rendering
Fresh(g, ppb) ==
    /\ Len(g.particles) = ParticleCount(ppb)
    /\ g.rendering
    /\ \A i \in DOMAIN g.particles :
          g.particles[i].x = g.x /\ g.particles[i].y = g.y

\* C14: a newly constructed group holds the particles its particlesPerBurst
\* calls for, all at the group's origin, with rendering = true (read after
\* load, after a particle-count click and after a pointer-down that appends;
\* a tick steps the group it appends, so only the number is read there), and
\* no step changes the number of particles of a group that stays in the pool
C14_GroupSize ==
    /\ []((last.op \in {"load", "particleCount"})
             => Fresh(particleGroups[1], particlesPerBurst))
    /\ []((last.op = "burst" /\ last.burst = "append")
             => Fresh(particleGroups[last.target], particlesPerBurst))
    /\ [][/\ (last'.op = "tick" /\ last'.burst = "append")
                => Len(particleGroups'[last'.target].particles)
                      = ParticleCount(particlesPerBurst)
          /\ \A gi \in DOMAIN particleGroups :
                (gi \in DOMAIN particleGroups'
                   /\ particleGroups'[gi].id = particleGroups[gi].id)
                   => Len(particleGroups'[gi].particles)
                         = Len(particleGroups[gi].particles)]_vars

\* a group of several particles has been stepped until it retired and has
\* just been respawned
C14_RespawnedSeveral ==
    /\ last.burst = "respawn"
    /\ Len(particleGroups[last.target].particles) >= 2

---------------------------------------------------------------------------
(* Properties: move, continued *)

InViewport(p) == p.x >= 0 /\ p.x <= _w /\ p.y <= _h

SameSpeeds(a, b) ==
    a.xSpeed = b.xSpeed /\ a.ySpeed = b.ySpeed /\ a.zSpeed = b.zSpeed

\* the groups a tick steps with the particles they had before it: those
\* that were rendering and that its auto-burst did not respawn
Stepped ==
    {gp \in Particles : particleGroups[gp[1]].rendering /\ NotRespawned(gp[1])}

\* C15: with enableFloor = false, move(d) on a particle inside the viewport
\* with lifetime > d changes x, y and z by exactly xSpeed * d, ySpeed * d and
\* zSpeed * d and leaves the three speeds unchanged
C15_FlatIntegration ==
    [][(last'.op = "tick" /\ ~enableFloor)
          => \A gp \in Stepped :
                LET p == ParticleAt(particleGroups, gp)
                    m == ParticleAt(particleGroups', gp)
                    d == last'.d
                IN  (FiniteParticle(p) /\ InViewport(p) /\ p.lifetime > d)
                       => /\ m.x - p.x = p.xSpeed * d
                          /\ m.y - p.y = p.ySpeed * d
                          /\ m.z - p.z = p.zSpeed * d
                          /\ SameSpeeds(m, p)]_vars

\* a tick with a positive elapsed-time scale has just moved a particle
\* with the floor disabled
C15_FlatStep ==
    /\ last.op = "tick" /\ last.d >= 1
    /\ ~enableFloor
    /\ \E gp \in Particles :
          LET p == ParticleAt(particleGroups, gp)
          IN  /\ FiniteParticle(p) /\ p.lifetime > 0
              /\ p.x # p.prevX
              /\ p.x = p.prevX + p.xSpeed * last.d

\* the condition under which move(d) culls: the lifetime does not outlast
\* d, or the particle is outside the viewport
MustCull(p, d) ==
    FLe(p.lifetime, d) \/ FLt(p.x, 0) \/ FGt(p.x, _w) \/ FGt(p.y, _h)

\* b is a with nothing changed but the lifetime, which is <= 0
OnlyKilled(a, b) ==
    /\ FLe(b.lifetime, 0)
    /\ SamePosition(a, b) /\ SameSpeeds(a, b)
    /\ b.prevX = a.prevX /\ b.prevY = a.prevY /\ b.prevZ = a.prevZ
    /\ b.airborne = a.airborne

\* C16: move(d) on a particle whose lifetime is <= d, or that is outside
\* the viewport, leaves it with lifetime <= 0 and changes nothing else: x, y,
\* z, the previous position, the speeds and airborne.  Stated of move
\* applied to every particle of the pool a tick would step, and of the
\* ticks themselves
C16_CullFirst ==
    /\ [](\A gp \in Particles :
             LET p == ParticleAt(particleGroups, gp)
             IN  FGt(p.lifetime, 0)
                    => \A d \in Deltas : \A floor \in BOOLEAN :
                          MustCull(p, d) => OnlyKilled(p, Move(p, d, floor)))
    /\ [][last'.op = "tick"
             => \A gp \in Stepped :
                   LET p == ParticleAt(particleGroups, gp)
                   IN  (FGt(p.lifetime, 0) /\ MustCull(p, last'.d))
                          => OnlyKilled(p, ParticleAt(particleGroups', gp))]_vars

\* a tick has just culled a particle that had left the viewport
C16_CulledOutside ==
    /\ last.op = "tick"
    /\ \E gp \in Particles :
          LET p == ParticleAt(particleGroups, gp)
          IN  /\ particleGroups[gp[1]].rendering
              /\ p.lifetime = -1
              /\ FGt(p.y, _h)

\* C17: once enableFloor is false, every step of a living particle is the
\* flat one, whether the particle was airborne or on the ground: the
\* position moves by speed * d and the speeds and airborne stay as they were
C17_FlatAfterToggle ==
    [][(last'.op = "tick" /\ ~enableFloor)
          => \A gp \in Stepped :
                LET p == ParticleAt(particleGroups, gp)
                    m == ParticleAt(particleGroups', gp)
                    d == last'.d
                IN  (FGt(p.lifetime, 0) /\ ~MustCull(p, d))
                       => /\ SameSpeeds(m, p)
                          /\ m.airborne = p.airborne
                          /\ FiniteParticle(p)
                                => /\ m.x = p.x + p.xSpeed * d
                                   /\ m.y = p.y + p.ySpeed * d
                                   /\ m.z = p.z + p.zSpeed * d]_vars

\* the floor has been switched off and a tick has just moved a particle
\* that was on the ground, by its speeds
C17_GroundedFlat ==
    /\ last.op = "tick" /\ last.d >= 1
    /\ ~enableFloor
    /\ \E gp \in Particles :
          LET p == ParticleAt(particleGroups, gp)
          IN  /\ p.airborne = FALSE
              /\ FiniteParticle(p) /\ p.lifetime > 0
              /\ p.y = p.prevY + p.ySpeed * last.d
              /\ p.y # p.prevY

---------------------------------------------------------------------------
(* Properties: the inputs *)

\* C18: a pointer-down or touch-start on a button triggers no burst: it
\* changes neither particleGroups (nor any particle in it), nor the render
\* queue, nor newBurstTimer
C18_ButtonNoBurst ==
    [][last'.op = "buttondown"
          => UNCHANGED <<particleGroups, renderQueue, newBurstTimer>>]_vars

\* a button has just taken a pointer-down after the simulation had moved on
C18_ButtonPressed ==
    /\ last.op = "buttondown"
    /\ events >= 2
    /\ newBurstTimer < BurstDelay

\* C19: the particle-count click takes particlesPerBurst round the cycle
\* 50 -> 100 -> 250 -> 1000 -> 50, so that a press brings back 50 only as
\* the fourth of a round, and resets the pool: afterwards particleGroups is
\* one newly constructed group with the particles the new count calls for
\* and rendering = true, and newBurstTimer is 60
C19_CountCycle ==
    /\ [](particlesPerBurst \in {50, 100, 250, 1000})
    /\ []((last.op = "particleCount" /\ particlesPerBurst = 50) => events >= 4)
    /\ [][last'.op = "particleCount"
             => /\ <<particlesPerBurst, particlesPerBurst'>>
                      \in {<<50, 100>>, <<100, 250>>, <<250, 1000>>, <<1000, 50>>}
                /\ Len(particleGroups') = 1
                /\ Fresh(particleGroups'[1], particlesPerBurst')
                /\ \A gi \in DOMAIN particleGroups :
                      particleGroups[gi].id # particleGroups'[1].id
                /\ newBurstTimer' = 60]_vars

\* four presses in a row have brought the count back to 50
C19_FullCycle ==
    /\ last.op = "particleCount"
    /\ events = 4
    /\ particlesPerBurst = 50
    /\ nextId = 6

\* C20: the auto-bursts click flips autoBursts and sets newBurstTimer to 0;
\* the tick that follows a click that turned autoBursts on, with no input
\* in between, makes an auto-burst; while autoBursts is off no tick makes
\* an auto-burst or changes newBurstTimer
C20_AutoBurstNextTick ==
    /\ [][last'.op = "autoBurst"
             => autoBursts' = ~autoBursts /\ newBurstTimer' = 0]_vars
    /\ [][(last.op = "autoBurst" /\ autoBursts /\ last'.op = "tick")
             => last'.burst \in {"respawn", "append"}]_vars
    /\ [][(~autoBursts /\ last'.op = "tick")
             => /\ last'.burst = "none"
                /\ newBurstTimer' = newBurstTimer
                /\ iterator' = iterator
                /\ Len(particleGroups') = Len(particleGroups)]_vars

\* autoBursts was turned off and on again, and the tick right after has
\* made an auto-burst although no time had passed since load
C20_BurstAfterOn ==
    /\ last.op = "tick" /\ last.d = 0
    /\ last.burst = "append"
    /\ autoBursts
    /\ events = 3
    /\ FGt(particleGroups[1].particles[1].lifetime, 59)

---------------------------------------------------------------------------
(* Properties: hue, previous position, depth *)

\* C21: after construction and after every recalculateHue or respawn the
\* hue of a group is an integer in 0..359
C21_HueRange == \A gi \in DOMAIN particleGroups : particleGroups[gi].hue \in 0..359

PrevIs(m, p) == m.prevX = p.x /\ m.prevY = p.y /\ m.prevZ = p.z

\* C22: when a tick renders, the previous position of every living
\* particle it has moved is the position the particle held before the move;
\* for a group the tick's burst respawned or appended that is the new
\* origin.  After a pointer-down's burst the particles of its group have
\* their previous position equal to their position, at the new origin
C22_PrevPosition ==
    /\ []((last.op = "burst")
             => LET g == particleGroups[last.target]
                IN  \A i \in DOMAIN g.particles :
                       /\ PrevIs(g.particles[i], g.particles[i])
                       /\ g.particles[i].prevX = last.x
                       /\ g.particles[i].prevY = last.y)
    /\ [][last'.op = "tick"
             => \A gi \in DOMAIN particleGroups' :
                   \A i \in DOMAIN particleGroups'[gi].particles :
                      LET g == particleGroups'[gi]
                          m == g.particles[i]
                      IN  FGt(m.lifetime, 0)
                             => IF gi \in DOMAIN particleGroups /\ NotRespawned(gi)
                                THEN particleGroups[gi].rendering
                                        => PrevIs(m, particleGroups[gi].particles[i])
                                ELSE m.prevX = g.x /\ m.prevY = g.y]_vars

\* the first group has been respawned at another origin and a tick has
\* moved one of its particles away from there
C22_FirstStroke ==
    /\ last.op = "tick"
    /\ \E gi \in DOMAIN particleGroups :
          LET g == particleGroups[gi]
          IN  /\ g.id = 1 /\ g.rendering
              /\ g.x # _w \div 2
              /\ \E i \in DOMAIN g.particles :
                    /\ FGt(g.particles[i].lifetime, 0)
                    /\ g.particles[i].prevX = g.x
                    /\ g.particles[i].x # g.x

\* C23: right after a group is constructed or respawned at (x, y), every
\* one of its particles is at y and has z >= y
C23_DepthBelowOrigin ==
    last.op \in {"load", "burst", "particleCount"}
       => LET g == particleGroups[ResetGroup]
          IN  \A i \in DOMAIN g.particles :
                 /\ g.particles[i].y = g.y
                 /\ FLe(g.particles[i].y, g.particles[i].z)

---------------------------------------------------------------------------
(* Properties: the renderer *)

---------------------------------------------------------------------------
(* Properties: the floor area *)

---------------------------------------------------------------------------
(* Properties: the tick *)

\* the groups a tick passes to stepParticles as they were before it: those
\* that were rendering and that its auto-burst did not respawn
SteppedGroups ==
    {gi \in DOMAIN particleGroups : particleGroups[gi].rendering /\ NotRespawned(gi)}

\* C26: stepParticles(d) moves, once, each particle that has lifetime > 0
\* and leaves the others as they are; it sets rendering to false exactly when
\* no particle had lifetime > 0 at the pass, so a group whose last particle
\* dies in a tick is still rendering after that tick and retires in the next
C26_StepParticles ==
    [][last'.op = "tick"
          => \A gi \in SteppedGroups :
                LET g == particleGroups[gi]
                    h == particleGroups'[gi]
                    live == {i \in DOMAIN g.particles : FGt(g.particles[i].lifetime, 0)}
                IN  /\ DOMAIN h.particles = DOMAIN g.particles
                    /\ \A i \in DOMAIN g.particles :
                          h.particles[i] = IF i \in live
                                           THEN Move(g.particles[i], last'.d, enableFloor)
                                           ELSE g.particles[i]
                    /\ h.rendering = (live # {})]_vars

\* the last living particle of a group has died in the tick just made, and
\* the group is still rendering
C26_RetiresNextTick ==
    /\ last.op = "tick"
    /\ \E gi \in DOMAIN particleGroups :
          /\ particleGroups[gi].rendering
          /\ \A i \in DOMAIN particleGroups[gi].particles :
                FLe(particleGroups[gi].particles[i].lifetime, 0)

\* C27: every group in renderQueue when render() starts has rendering =
\* true (canvas.queued is the queue as render found it, and the groups are
\* then as the tick's loop left them)
C27_QueuedAreActive ==
    last.op = "tick"
       => \A k \in DOMAIN canvas.queued :
             \A gi \in DOMAIN particleGroups :
                particleGroups[gi].id = canvas.queued[k] => particleGroups[gi].rendering

\* the lowest index of a group that is not rendering
FirstIdle(groups) == CHOOSE i \in Idle(groups) : \A j \in Idle(groups) : i <= j

\* C28: when some group is idle, particleBurst(x, y) respawns the idle
\* group of lowest index, at (x, y), and leaves every other group of the pool
\* as it was: after a pointer-down the other groups are unchanged, and after
\* a tick's auto-burst they are what the tick's own step makes of them
C28_FirstIdleOnly ==
    [][(BurstCalled /\ Idle(particleGroups) # {})
          => LET t == FirstIdle(particleGroups)
             IN  /\ last'.burst = "respawn" /\ last'.target = t
                 /\ particleGroups'[t].x = last'.x
                 /\ particleGroups'[t].y = last'.y
                 /\ particleGroups'[t].id = particleGroups[t].id
                 /\ \A gi \in DOMAIN particleGroups \ {t} :
                       particleGroups'[gi] =
                          IF last'.op = "tick" /\ particleGroups[gi].rendering
                          THEN StepParticles(particleGroups[gi], last'.d, enableFloor)
                          ELSE particleGroups[gi]]_vars

\* a pointer-down has just respawned the second group while the first was
\* rendering, with a living particle
C28_OthersInFlight ==
    /\ last.op = "burst" /\ last.burst = "respawn"
    /\ last.target = 2
    /\ particleGroups[1].rendering
    /\ \E i \in DOMAIN particleGroups[1].particles :
          FGt(particleGroups[1].particles[i].lifetime, 0)

\* the number of value() calls of one auto-burst that respawns or
\* constructs a group of n particles: three for autoPopulate's arguments,
\* one for the hue, and those of the particles
AutoBurstDraws(n) == 3 + 1 + DrawsPerParticle * n

\* C29: in a tick with autoBursts = true, a positive newBurstTimer is
\* decreased by the elapsed-time scale and no burst is made; otherwise one
\* burst, and no more, is made and newBurstTimer becomes 60.  With
\* autoBursts = false a tick changes neither the size of the pool nor
\* newBurstTimer
C29_TimerAndBurst ==
    [][last'.op = "tick"
          => /\ (autoBursts /\ newBurstTimer > 0)
                   => /\ newBurstTimer' = newBurstTimer - last'.d
                      /\ last'.burst = "none"
                      /\ iterator' = iterator
                      /\ Len(particleGroups') = Len(particleGroups)
             /\ (autoBursts /\ newBurstTimer <= 0)
                   => /\ newBurstTimer' = 60
                      /\ last'.burst \in {"respawn", "append"}
                      /\ Len(particleGroups') =
                            Len(particleGroups) + (IF last'.burst = "append" THEN 1 ELSE 0)
                      /\ iterator' = IterAfter(iterator,
                            AutoBurstDraws(Len(particleGroups'[last'.target].particles)))
             /\ ~autoBursts
                   => /\ Len(particleGroups') = Len(particleGroups)
                      /\ newBurstTimer' = newBurstTimer]_vars

\* the timer has run out through the ticks alone and the third tick has
\* made an auto-burst, which found the first group idle
C29_TimerRanOut ==
    /\ last.op = "tick"
    /\ last.burst = "respawn"
    /\ events = 3
    /\ autoBursts
    /\ newBurstTimer = 60

\* C30: after a pointer-down's burst, and unless the auto-bursts button is
\* pressed in between, a tick makes an auto-burst only when the elapsed-time
\* scales of the ticks since that burst have summed to at least 60
C30_BurstPostponesAuto ==
    [][(last'.op = "tick" /\ last'.burst # "none" /\ sinceBurst >= 0)
          => sinceBurst >= 60]_vars

\* a pointer-down's burst was followed by ticks that summed to 60 and
\* more, and then by a tick that made an auto-burst
C30_AutoAfterDelay ==
    /\ last.op = "tick"
    /\ last.burst # "none"
    /\ sinceBurst >= 60


---------------------------------------------------------------------------
(* Properties: termination *)

\* the groups of the pool with this id
WithId(id) == {gi \in DOMAIN particleGroups : particleGroups[gi].id = id}

\* a group of the pool with this id owns a particle with lifetime > 0
HasLive(id) ==
    \E gi \in WithId(id) :
       \E pi \in DOMAIN particleGroups[gi].particles :
          FGt(particleGroups[gi].particles[pi].lifetime, 0)

\* group gi is reusable and none of its particles is alive
Retired(gi) ==
    /\ ~particleGroups[gi].rendering
    /\ \A pi \in DOMAIN particleGroups[gi].particles :
          ~FGt(particleGroups[gi].particles[pi].lifetime, 0)

\* C31: when every tick has a positive elapsed-time scale, a particle with
\* lifetime > 0 that a tick steps either keeps a smaller lifetime > 0 or ends
\* with lifetime <= 0, and every group of the pool that owns a living particle
\* eventually has none and has rendering == false, with the floor enabled or
\* disabled, unless the particle-count command discards it
C31_ParticlesDie ==
    /\ [][last'.op = "tick"
             => \A gp \in Particles :
                   FGt(ParticleAt(particleGroups, gp).lifetime, 0)
                   => /\ FLt(ParticleAt(particleGroups', gp).lifetime,
                             ParticleAt(particleGroups, gp).lifetime)
                      /\ \/ FLe(ParticleAt(particleGroups', gp).lifetime, 0)
                         \/ ParticleAt(particleGroups', gp).lifetime
                               = ParticleAt(particleGroups, gp).lifetime - last'.d]_vars
    /\ \A id \in 1..(MaxLiveInputs + 1) :
          HasLive(id) ~> (\A gi \in WithId(id) : Retired(gi))

\* a group has retired whose particle spent its lifetime at rest on the floor
C31_RetiredAfterLife ==
    /\ enableFloor
    /\ last.op = "tick"
    /\ \E gi \in DOMAIN particleGroups :
          /\ Retired(gi)
          /\ \E pi \in DOMAIN particleGroups[gi].particles :
                /\ particleGroups[gi].particles[pi].lifetime = -1
                /\ particleGroups[gi].particles[pi].airborne = FALSE
                /\ particleGroups[gi].particles[pi].y >= (_h * 72) \div 100


---------------------------------------------------------------------------
(* Properties: elapsed time *)

\* particle p, stepped into a and then into b, is alive and was inside the
\* viewport at both steps
StaysAlive(p, a, b) ==
    /\ FGt(p.lifetime, 0)
    /\ InViewport(p)
    /\ FGt(a.lifetime, 0)
    /\ InViewport(a)
    /\ FGt(b.lifetime, 0)

\* the same position and lifetime
SameState(a, b) == a.x = b.x /\ a.y = b.y /\ a.z = b.z /\ a.lifetime = b.lifetime

\* C32: with the floor disabled, a particle that stays alive and in the
\* viewport has, after a step of scale d1 and a step of scale d2, the x, y, z
\* and lifetime a single step of scale d1 + d2 gives it
C32_ElapsedTime ==
    ~enableFloor
    => \A gp \in Particles : \A d1 \in Deltas, d2 \in Deltas :
          LET p == ParticleAt(particleGroups, gp)
              a == Move(p, d1, FALSE)
              b == Move(a, d2, FALSE)
          IN  StaysAlive(p, a, b) => SameState(b, Move(p, d1 + d2, FALSE))

\* with the floor disabled a tick has moved a particle that two more steps
\* of unequal positive scales leave alive, in the viewport and elsewhere
C32_TwoSteps ==
    /\ ~enableFloor
    /\ last.op = "tick"
    /\ \E gp \in Particles : \E d1 \in Deltas, d2 \in Deltas :
          LET p == ParticleAt(particleGroups, gp)
              a == Move(p, d1, FALSE)
              b == Move(a, d2, FALSE)
          IN  /\ d1 > 0 /\ d2 > 0 /\ d1 # d2
              /\ StaysAlive(p, a, b)
              /\ p.prevX # p.x
              /\ ~SamePosition(a, p)
              /\ ~SamePosition(b, a)


---------------------------------------------------------------------------
(* Properties: the ground *)

\* this step ran resetValues on the particles of group gi: a burst respawned
\* the group, or the particle-count command made the pool anew
ResetInStep(gi) ==
    \/ last'.op = "particleCount"
    \/ last'.burst = "respawn" /\ last'.target = gi

\* move(d) takes p through the bounce branch
BounceStep(p, d) ==
    /\ FGt(p.lifetime, 0)
    /\ ~MustCull(p, d)
    /\ p.airborne = TRUE
    /\ ~FLt(FAdd(p.y, FMul(p.ySpeed, d)), FAdd(p.z, FMul(p.zSpeed, d)))

\* C33: the airborne flag of a particle goes from true to false only in a
\* tick that takes the particle through the bounce branch with the floor
\* enabled, and once false it stays false through every tick and every
\* input, floor toggles included, until resetValues runs on the particle
C33_GroundedAbsorbing ==
    [][\A gp \in Particles :
          (/\ gp[1] \in DOMAIN particleGroups'
           /\ gp[2] \in DOMAIN particleGroups'[gp[1]].particles
           /\ ~ResetInStep(gp[1]))
          => LET p == ParticleAt(particleGroups, gp)
                 m == ParticleAt(particleGroups', gp)
             IN  /\ (p.airborne = TRUE /\ m.airborne # TRUE)
                       => /\ last'.op = "tick"
                          /\ enableFloor
                          /\ particleGroups[gp[1]].rendering
                          /\ BounceStep(p, last'.d)
                          /\ m.airborne = FALSE
                 /\ p.airborne = FALSE => m.airborne = FALSE]_vars

\* a particle on the ground is still on the ground, and alive, after the
\* floor was switched off and on again
C33_StillGrounded ==
    /\ last.op = "floor"
    /\ enableFloor
    /\ \E gp \in Particles :
          /\ ParticleAt(particleGroups, gp).airborne = FALSE
          /\ FGt(ParticleAt(particleGroups, gp).lifetime, 0)


---------------------------------------------------------------------------
(* Properties: what gets drawn *)

\* the ids in the render queue when render() ran
Queued == {canvas.queued[k] : k \in DOMAIN canvas.queued}

\* group gi owns a particle with lifetime > 0
OwnsLive(gi) ==
    \E pi \in DOMAIN particleGroups[gi].particles :
       FGt(particleGroups[gi].particles[pi].lifetime, 0)

\* C34: in every tick, every group of the pool that owns a particle with
\* lifetime > 0 when render() runs is in the render queue, the groups a burst
\* created or respawned since the previous tick included
C34_LiveAreQueued ==
    last.op = "tick"
    => \A gi \in DOMAIN particleGroups :
          OwnsLive(gi) => particleGroups[gi].id \in Queued

\* after a particle-count click, a pointer-down appended a group and the
\* tick that followed rendered it, alive, along with the first group
C34_BurstRendered ==
    /\ last.op = "tick" /\ last.burst = "none"
    /\ events = 3
    /\ particlesPerBurst = 100
    /\ Len(particleGroups) = 2
    /\ OwnsLive(1) /\ OwnsLive(2)
    /\ particleGroups[2].id \in Queued


\* the ids of the groups of the pool
PoolIds == {particleGroups[gi].id : gi \in DOMAIN particleGroups}

\* C35: every group in the render queue when render() runs is a group of the
\* current pool, also when the particle-count command made the pool anew
\* between a pointer-down's burst and the tick
C35_QueuedInPool == last.op = "tick" => Queued \subseteq PoolIds


---------------------------------------------------------------------------
(* Properties: the pool and the switches *)

\* C36: the pool always holds at least one group, and every call of
\* particleBurst respawns a group or appends one
C36_PoolNeverEmpty ==
    /\ [](Len(particleGroups) >= 1)
    /\ [][BurstCalled => last'.burst \in {"respawn", "append"}]_vars

\* the particle-count command made the pool anew and the pointer-down that
\* followed appended a group to it
C36_BurstAfterReset ==
    /\ last.op = "burst" /\ last.burst = "append"
    /\ events = 2
    /\ particlesPerBurst = 100
    /\ Len(particleGroups) = 2


\* C37: reflections are never enabled while the floor is disabled; the
\* reflections command changes nothing while the floor is off, and every
\* floor toggle leaves enableReflections equal to the new enableFloor
C37_ReflectionsNeedFloor ==
    /\ [](enableReflections => enableFloor)
    /\ [][(last'.op = "reflections" /\ ~enableFloor)
             => /\ enableReflections' = enableReflections
                /\ enableFloor' = enableFloor]_vars
    /\ [][last'.op = "floor"
             => /\ enableFloor' = ~enableFloor
                /\ enableReflections' = enableFloor']_vars

\* the floor was switched off and the reflections command that followed was
\* ignored
C37_IgnoredWhileOff ==
    /\ last.op = "reflections"
    /\ events = 2
    /\ ~enableFloor
    /\ ~enableReflections


---------------------------------------------------------------------------
(* Properties: the ground plane *)

\* move(d) takes p through the free-fall branch
FreeFallStep(p, d) ==
    /\ FGt(p.lifetime, 0)
    /\ ~MustCull(p, d)
    /\ p.airborne = TRUE
    /\ FLt(FAdd(p.y, FMul(p.ySpeed, d)), FAdd(p.z, FMul(p.zSpeed, d)))

\* C38: with the floor enabled, a step through the free-fall branch leaves
\* the particle's y not greater than its z
C38_FreeFallAboveGround ==
    [][(last'.op = "tick" /\ enableFloor)
          => \A gp \in Stepped :
                FreeFallStep(ParticleAt(particleGroups, gp), last'.d)
                => FLe(ParticleAt(particleGroups', gp).y,
                       ParticleAt(particleGroups', gp).z)]_vars

===========================================================================
